---- MODULE Spec2Model ----
(***************************************************************************)
(* State-machine model of the textual-inputs widgets: TextInput            *)
(* (text_input.py), IntegerInput (integer_input.py) and BooleanInput       *)
(* (boolean_input.py).  One behaviour follows one widget instance from its *)
(* construction through the events its host delivers to it (key, focus,    *)
(* blur) and the render calls the host makes.                              *)
(*                                                                         *)
(* Strings are sequences of one-character strings; Python's slices, str()  *)
(* and int() are modelled by what they compute.  An exception raised by a  *)
(* handler is recorded in error and ends the behaviour: the host's message *)
(* loop does not deliver further events to the widget.                     *)
(***************************************************************************)
EXTENDS Integers, Sequences, FiniteSets, TLC

\* ------------------------------------------------------------------ bounds
\* longest text content the model lets a printable key build
MaxLen == 4
\* longest initial text value handed to the TextInput constructor
MaxInitLen == 4
\* most digits a value has that the model lets a digit key extend
MaxDigits == 2
\* largest magnitude the model lets the up and down keys step to
MaxInt == 3
\* largest cursor position the model follows on an IntegerInput
MaxCursor == 5
\* most inputs in a sequence handed to a plain and to a masked TextInput
MaxScript == 3
\* longest content a scrolled TextInput is constructed with
MaxViewLen == 7
\* longest tail of a handler name after its first seven characters
MaxSuffix == 1

\* printable characters typed into a TextInput
Chars == {"a", "b"}
\* digit keys typed into an IntegerInput
DigitKeys == {"0", "5"}
\* initial values handed to the IntegerInput constructor (<<>> is None)
InitInts == {<<>>, <<0>>, <<-5>>, <<12>>}
\* placeholder, title and password arguments handed to TextInput, and the
\* width (columns) and border the host lays the widget out with: view widths
\* 0, 1 and 4, each plain and concealed
CtorArgs ==
    {[placeholder |-> <<>>, title |-> <<>>, password |-> FALSE,
      size_width |-> 4, border |-> TRUE],
     [placeholder |-> <<"n">>, title |-> <<"T">>, password |-> TRUE,
      size_width |-> 4, border |-> TRUE],
     [placeholder |-> <<>>, title |-> <<"T">>, password |-> FALSE,
      size_width |-> 3, border |-> FALSE],
     [placeholder |-> <<"n">>, title |-> <<>>, password |-> TRUE,
      size_width |-> 3, border |-> FALSE],
     [placeholder |-> <<"n">>, title |-> <<>>, password |-> FALSE,
      size_width |-> 8, border |-> TRUE],
     [placeholder |-> <<>>, title |-> <<"T">>, password |-> TRUE,
      size_width |-> 8, border |-> TRUE]}
\* placeholder, title and step arguments handed to IntegerInput
IntCtorArgs ==
    {[placeholder |-> <<>>, title |-> <<>>, step |-> 1],
     [placeholder |-> <<>>, title |-> <<"T">>, step |-> 2],
     [placeholder |-> <<"n">>, title |-> <<>>, step |-> 2],
     [placeholder |-> <<"n">>, title |-> <<"T">>, step |-> 1]}

\* widths (columns) the host gives a bordered TextInput whose scrolling is
\* followed: view widths 1, 3, 4, 5 and 7
ViewWidths == {5, 7, 8, 9, 11}
\* characters of the tail of a handler name handed to a setter
NameChars == {"a", "1", "A", " "}
\* the first characters of a handler name handed to a setter
NameHeads ==
    {<<"h", "a", "n", "d", "l", "e", "_">>,
     <<"H", "a", "n", "d", "l", "e", "_">>,
     <<"h", "a", "n", "d", "l", "e">>,
     <<>>}

\* ------------------------------------------------------------- variables
VARIABLES
    widget,            \* class of the widget instance: "text", "integer", "boolean"
    value,             \* TextInput.value
    int_value,         \* IntegerInput.value: <<>> is None, <<n>> is the int n
    bool_value,        \* BooleanInput.value
    _cursor_position,  \* self._cursor_position
    _view_offset,      \* TextInput._view_offset
    _has_focus,        \* self._has_focus
    size_width,        \* self.size.width, set by the host's layout
    border,            \* self.border is truthy
    step,              \* IntegerInput.step
    placeholder,       \* self.placeholder
    title,             \* self.title
    has_password,      \* TextInput.has_password
    lastKey,           \* the event handled last ("none" after construction)
    prevChar,          \* the event handled before lastKey was a printable key
    pre,               \* the widget's fields as they were before lastKey
    emitted,           \* messages emitted while handling lastKey, in order
    stopped,           \* event.stop() was called on the event handled last
    error,             \* exception raised by the handler of lastKey, or "none"
    rendered,          \* segments returned by render() when lastKey = "render"
    _on_change_message_class,  \* self._on_change_message_class
    _on_focus_message_class,   \* self._on_focus_message_class
    lastBind,          \* the handler-name assignment made last, if lastKey = "bind"
    attr_on_change_handler_name,  \* the instance attribute on_change_handler_name
                       \* an assignment gives an IntegerInput, <<>> before
    log,               \* what a plain TextInput did with each input so far
    pos                \* 0 while the plain TextInput runs; then 1 + the number
                       \* of inputs of log a masked TextInput has been given

vars == <<widget, value, int_value, bool_value, _cursor_position, _view_offset,
          _has_focus, size_width, border, step, placeholder, title,
          has_password, lastKey, prevChar, pre,
          emitted, stopped, error, rendered,
          _on_change_message_class, _on_focus_message_class, lastBind,
          attr_on_change_handler_name, log, pos>>

\* what the constructor and the host's layout fix for the widget's lifetime
layout == <<widget, size_width, border, step, placeholder, title, has_password>>

\* what key, focus, blur and render events leave alone
config == <<layout, _on_change_message_class, _on_focus_message_class,
            attr_on_change_handler_name, log, pos>>

\* ---------------------------------------------------------------- Python
Max(a, b) == IF a >= b THEN a ELSE b
Min(a, b) == IF a <= b THEN a ELSE b

\* a slice index as Python normalises it against a sequence of length n
SliceIndex(i, n) == IF i < 0 THEN Max(i + n, 0) ELSE Min(i, n)

\* s[lo:hi]
PySlice(s, lo, hi) ==
    LET a == SliceIndex(lo, Len(s))
        b == SliceIndex(hi, Len(s))
    IN  IF a >= b THEN <<>> ELSE SubSeq(s, a + 1, b)

\* s[lo:]
PyFrom(s, lo) == PySlice(s, lo, Len(s))

\* s[:hi]
PyTo(s, hi) == PySlice(s, 0, hi)

\* str() of a bool
BoolToStr(b) == IF b THEN <<"T", "r", "u", "e">> ELSE <<"F", "a", "l", "s", "e">>

\* string.digits
digits == <<"0", "1", "2", "3", "4", "5", "6", "7", "8", "9">>

DigitSet == {digits[i] : i \in 1..10}

DigitVal(c) == (CHOOSE i \in 1..10 : digits[i] = c) - 1

RECURSIVE NatToStr(_)
NatToStr(n) ==
    IF n < 10 THEN <<digits[n + 1]>>
    ELSE NatToStr(n \div 10) \o <<digits[(n % 10) + 1]>>

\* str() of an int
IntToStr(n) == IF n < 0 THEN <<"-">> \o NatToStr(-n) ELSE NatToStr(n)

\* str() of an Optional[int]
OptToStr(v) == IF v = <<>> THEN <<"N", "o", "n", "e">> ELSE IntToStr(v[1])

IsDigits(s) == Len(s) > 0 /\ \A i \in 1..Len(s) : s[i] \in DigitSet

\* int() accepts the string (over the alphabet of digits and "-")
IsIntLiteral(s) ==
    \/ IsDigits(s)
    \/ Len(s) > 1 /\ s[1] = "-" /\ IsDigits(Tail(s))

RECURSIVE DigitsToNat(_)
DigitsToNat(s) ==
    IF s = <<>> THEN 0
    ELSE 10 * DigitsToNat(SubSeq(s, 1, Len(s) - 1)) + DigitVal(s[Len(s)])

\* int() of a string it accepts
StrToInt(s) == IF s[1] = "-" THEN 0 - DigitsToNat(Tail(s)) ELSE DigitsToNat(s)

\* all sequences over S of length at most n
SeqsUpTo(S, n) == UNION {[1..k -> S] : k \in 0..n}

\* --------------------------------------------------------------- messages
\* "handle_"
HandlePrefix == <<"h", "a", "n", "d", "l", "e", "_">>

HANDLER_ON_CHANGE ==
    HandlePrefix \o <<"i", "n", "p", "u", "t", "_", "o", "n", "_",
                      "c", "h", "a", "n", "g", "e">>
HANDLER_ON_FOCUS ==
    HandlePrefix \o <<"i", "n", "p", "u", "t", "_", "o", "n", "_",
                      "f", "o", "c", "u", "s">>

\* the message classes, each with its __name__ and its _handler
InputOnChange ==
    [name |-> <<"I", "n", "p", "u", "t", "O", "n", "C", "h", "a", "n", "g", "e">>,
     _handler |-> HANDLER_ON_CHANGE]
InputOnFocus ==
    [name |-> <<"I", "n", "p", "u", "t", "O", "n", "F", "o", "c", "u", "s">>,
     _handler |-> HANDLER_ON_FOCUS]

\* string.ascii_lowercase and string.ascii_uppercase
ascii_lowercase ==
    <<"a", "b", "c", "d", "e", "f", "g", "h", "i", "j", "k", "l", "m",
      "n", "o", "p", "q", "r", "s", "t", "u", "v", "w", "x", "y", "z">>
ascii_uppercase ==
    <<"A", "B", "C", "D", "E", "F", "G", "H", "I", "J", "K", "L", "M",
      "N", "O", "P", "Q", "R", "S", "T", "U", "V", "W", "X", "Y", "Z">>

HANDLER_SAFE == {ascii_lowercase[i] : i \in 1..26} \cup DigitSet \cup {"_"}

\* str.lower() on ASCII text
Lower(s) ==
    [i \in 1..Len(s) |->
        IF \E k \in 1..26 : ascii_uppercase[k] = s[i]
        THEN ascii_lowercase[CHOOSE k \in 1..26 : ascii_uppercase[k] = s[i]]
        ELSE s[i]]

\* str.startswith
StartsWith(s, prefix) ==
    /\ Len(s) >= Len(prefix)
    /\ SubSeq(s, 1, Len(prefix)) = prefix

\* what make_message_class does when it raises
Raises(exception) == [error |-> exception, class |-> <<>>]

\* make_message_class without its loop over the characters of the name
MakeMessageClassAnyChar(handler_name) ==
    IF ~StartsWith(handler_name, HandlePrefix) THEN Raises("ValueError")
    ELSE IF Len(handler_name) < 7 THEN Raises("ValueError")
    ELSE [error |-> "none",
          class |-> [name |-> PyFrom(Lower(handler_name), 7),
                     _handler |-> handler_name]]

\* make_message_class: the class it returns, or the exception it raises
make_message_class(handler_name) ==
    IF ~StartsWith(handler_name, HandlePrefix) THEN Raises("ValueError")
    ELSE IF Len(handler_name) < 7 THEN Raises("ValueError")
    ELSE IF \E i \in 1..Len(handler_name) : handler_name[i] \notin HANDLER_SAFE
    THEN Raises("ValueError")
    ELSE [error |-> "none",
          class |-> [name |-> PyFrom(Lower(handler_name), 7),
                     _handler |-> handler_name]]

\* the cursor segment of a render
cursor == "|"

\* the fields of the widget a message handler or a later event can observe
Fields == [value |-> value, int_value |-> int_value, bool_value |-> bool_value,
           cursor_position |-> _cursor_position, view_offset |-> _view_offset,
           has_focus |-> _has_focus]

\* ------------------------------------------------------------- TextInput
\* TextInput._view_width
_view_width == size_width - (IF border THEN 2 ELSE 0) - 2

\* TextInput._set_view_left_boundary: the new _view_offset
_set_view_left_boundary(index) == Max(0, index)

\* _set_view_right_boundary without the column it adds for the cursor
SetViewRightBoundaryNoCursorColumn(val, index) ==
    LET right == Min(Len(val), index)
    IN  _set_view_left_boundary(right - _view_width)

\* _set_view_right_boundary without the clamp of index to the content
SetViewRightBoundaryUnclamped(val, index) ==
    _set_view_left_boundary(index - _view_width + 1)

\* TextInput._set_view_right_boundary: the new _view_offset
_set_view_right_boundary(val, index) ==
    LET right == Min(Len(val), index)
    IN  _set_view_left_boundary(right - _view_width + 1)

edge_visibility == 3

\* _ensure_cursor_visible testing the right edge before the left edge
EnsureRightFirst(val, cur, off) ==
    LET left == off
        right == off + _view_width - 1
    IN  IF cur > right - edge_visibility
        THEN _set_view_right_boundary(val, cur + edge_visibility)
        ELSE IF cur < left + edge_visibility
             THEN _set_view_left_boundary(cur - edge_visibility)
             ELSE off

\* TextInput._ensure_cursor_visible: the new _view_offset
_ensure_cursor_visible(val, cur, off) ==
    LET left == off
        right == off + _view_width - 1
    IN  IF cur < left + edge_visibility
        THEN _set_view_left_boundary(cur - edge_visibility)
        ELSE IF cur > right - edge_visibility
             THEN _set_view_right_boundary(val, cur + edge_visibility)
             ELSE off

\* The key methods below map the text fields [value, cur, off] to their new
\* values.
TextFields == [value |-> value, cur |-> _cursor_position, off |-> _view_offset]

\* _cursor_left without its bound on the cursor
CursorLeftUnguarded(s) ==
    [s EXCEPT !.cur = s.cur - 1,
              !.off = _ensure_cursor_visible(s.value, s.cur - 1, s.off)]

_cursor_left(s) ==
    IF s.cur > 0
    THEN [s EXCEPT !.cur = s.cur - 1,
                   !.off = _ensure_cursor_visible(s.value, s.cur - 1, s.off)]
    ELSE s

\* _cursor_right without its bound on the cursor
CursorRightUnguarded(s) ==
    [s EXCEPT !.cur = s.cur + 1,
              !.off = _ensure_cursor_visible(s.value, s.cur + 1, s.off)]

_cursor_right(s) ==
    IF s.cur < Len(s.value)
    THEN [s EXCEPT !.cur = s.cur + 1,
                   !.off = _ensure_cursor_visible(s.value, s.cur + 1, s.off)]
    ELSE s

\* _cursor_home without the call of _ensure_cursor_visible
HomeNoResync(s) == [s EXCEPT !.cur = 0]

_cursor_home(s) ==
    [s EXCEPT !.cur = 0, !.off = _ensure_cursor_visible(s.value, 0, s.off)]

_cursor_end(s) ==
    [s EXCEPT !.cur = Len(s.value),
              !.off = _ensure_cursor_visible(s.value, Len(s.value), s.off)]

\* _key_backspace removing the character after the cursor
BackspaceRemovesForward(s) ==
    IF s.cur > 0
    THEN LET v == PyTo(s.value, s.cur) \o PyFrom(s.value, s.cur + 1)
         IN  [value |-> v, cur |-> s.cur - 1,
              off |-> _ensure_cursor_visible(v, s.cur - 1, s.off)]
    ELSE s

\* _key_backspace without the call of _ensure_cursor_visible
BackspaceNoResync(s) ==
    IF s.cur > 0
    THEN [s EXCEPT !.value = PyTo(s.value, s.cur - 1) \o PyFrom(s.value, s.cur),
                   !.cur = s.cur - 1]
    ELSE s

_key_backspace(s) ==
    IF s.cur > 0
    THEN LET v == PyTo(s.value, s.cur - 1) \o PyFrom(s.value, s.cur)
         IN  [value |-> v, cur |-> s.cur - 1,
              off |-> _ensure_cursor_visible(v, s.cur - 1, s.off)]
    ELSE s

\* _key_delete followed by a call of _ensure_cursor_visible
DeleteResyncs(s) ==
    IF s.cur < Len(s.value)
    THEN LET v == PyTo(s.value, s.cur) \o PyFrom(s.value, s.cur + 1)
         IN  [s EXCEPT !.value = v,
                       !.off = _ensure_cursor_visible(v, s.cur, s.off)]
    ELSE s

_key_delete(s) ==
    IF s.cur < Len(s.value)
    THEN [s EXCEPT !.value = PyTo(s.value, s.cur) \o PyFrom(s.value, s.cur + 1)]
    ELSE s

\* _key_printable appending the key instead of splicing it in at the cursor
PrintableAppends(s, key) ==
    LET v == s.value \o <<key>>
    IN  [value |-> v, cur |-> s.cur + 1,
         off |-> _ensure_cursor_visible(v, s.cur + 1, s.off)]

\* _key_printable storing the concealed key in a password field
PrintableStoresConcealed(s, key) ==
    LET k == IF has_password THEN <<"*">> ELSE <<key>>
        v == PyTo(s.value, s.cur) \o k \o PyFrom(s.value, s.cur)
    IN  IF ~(s.cur > Len(v))
        THEN [value |-> v, cur |-> s.cur + 1,
              off |-> _ensure_cursor_visible(v, s.cur + 1, s.off)]
        ELSE [s EXCEPT !.value = v]

_key_printable(s, key) ==
    LET v == PyTo(s.value, s.cur) \o <<key>> \o PyFrom(s.value, s.cur)
    IN  IF ~(s.cur > Len(v))
        THEN [value |-> v, cur |-> s.cur + 1,
              off |-> _ensure_cursor_visible(v, s.cur + 1, s.off)]
        ELSE [s EXCEPT !.value = v]

\* TextInput._emit_on_change: the message carries the sender, whose fields
\* the handler reads as they are when the message is emitted
TextOnChange(s) ==
    [handler |-> _on_change_message_class._handler,
     sender |-> [Fields EXCEPT !.value = s.value, !.cursor_position = s.cur,
                               !.view_offset = s.off]]

\* keys on_key has a branch for, and one ("enter") it has none for
TextControlKeys == {"left", "right", "home", "end", "ctrl+h", "delete"}
TextKeys == TextControlKeys \cup Chars \cup {"enter"}

\* the event name recorded for a key: every printable key is "char"
KeyName(key) == IF key \in Chars \cup DigitKeys THEN "char" ELSE key

\* TextInput.on_key: new text fields
TextOnKeyFields(s, key) ==
    CASE key = "left" -> _cursor_left(s)
      [] key = "right" -> _cursor_right(s)
      [] key = "home" -> _cursor_home(s)
      [] key = "end" -> _cursor_end(s)
      [] key = "ctrl+h" -> _key_backspace(s)
      [] key = "delete" -> _key_delete(s)
      [] key \in Chars -> _key_printable(s, key)
      [] OTHER -> s

\* on_key with _emit_on_change called by the printable branch only
TextKeyEmitsPrintableOnly(key) == key \in Chars

\* TextInput.on_key: the branches that end in _emit_on_change
TextKeyEmits(key) == key \in {"ctrl+h", "delete"} \cup Chars

\* TextInput.on_key: the messages emitted, built when the key method is done
TextOnKeyEmitted(s, key) ==
    IF TextKeyEmits(key) THEN <<TextOnChange(TextOnKeyFields(s, key))>> ELSE <<>>

\* on_key without the event.stop() of _emit_on_change
TextStopNever(key) == FALSE

\* TextInput.on_key: event.stop() is called, by _emit_on_change
TextOnKeyStopped(key) == TextKeyEmits(key)

\* no handler name has been assigned by the event handled last
NoBind == <<>>

Recorded(key) ==
    /\ lastKey' = key
    /\ prevChar' = (lastKey = "char")
    /\ pre' = Fields

History(key) ==
    /\ Recorded(key)
    /\ lastBind' = NoBind

TextOnKey(key) ==
    /\ widget = "text"
    /\ error = "none"
    /\ key \in Chars => Len(value) < MaxLen
    /\ LET s == TextOnKeyFields(TextFields, key)
       IN  /\ value' = s.value
           /\ _cursor_position' = s.cur
           /\ _view_offset' = s.off
           /\ emitted' = TextOnKeyEmitted(TextFields, key)
           /\ stopped' = TextOnKeyStopped(key)
    /\ History(KeyName(key))
    /\ rendered' = <<>>
    /\ UNCHANGED <<int_value, bool_value, _has_focus, error>>
    /\ UNCHANGED config

\* _emit_on_focus emitting the on-change message class
OnFocusWrongClass(f) ==
    [handler |-> _on_change_message_class._handler, sender |-> f]

\* TextInput._emit_on_focus
OnFocusMessage(f) ==
    [handler |-> _on_focus_message_class._handler, sender |-> f]

\* TextInput.on_focus
TextOnFocus ==
    /\ widget = "text"
    /\ error = "none"
    /\ _has_focus' = TRUE
    /\ emitted' = <<OnFocusMessage([Fields EXCEPT !.has_focus = TRUE])>>
    /\ stopped' = FALSE
    /\ History("focus")
    /\ rendered' = <<>>
    /\ UNCHANGED <<value, int_value, bool_value, _cursor_position,
                   _view_offset, error>>
    /\ UNCHANGED config

\* TextInput.on_blur
TextOnBlur ==
    /\ widget = "text"
    /\ error = "none"
    /\ _has_focus' = FALSE
    /\ emitted' = <<>>
    /\ stopped' = FALSE
    /\ History("blur")
    /\ rendered' = <<>>
    /\ UNCHANGED <<value, int_value, bool_value, _cursor_position,
                   _view_offset, error>>
    /\ UNCHANGED config

\* conceal_text
conceal_text(segment) == [i \in 1..Len(segment) |-> "*"]

\* TextInput._modify_text (syntax highlighting is left to the host)
_modify_text(segment) ==
    IF has_password THEN conceal_text(segment) ELSE segment

\* TextInput._view_boundary
_view_boundary(off) == [left |-> off, right |-> off + _view_width]

\* _render_text calling _ensure_cursor_visible before it slices
RenderTextResyncs(f) ==
    LET off == _ensure_cursor_visible(f.value, f.cursor_position, f.view_offset)
        text == PySlice(_modify_text(f.value), off,
                        off + _view_width - (IF f.has_focus THEN 1 ELSE 0))
    IN  [segments |->
             IF f.has_focus
             THEN <<PyTo(text, f.cursor_position - off), <<cursor>>,
                    PyFrom(text, f.cursor_position - off)>>
             ELSE <<text>>,
         fields |-> [f EXCEPT !.view_offset = off]]

\* TextInput._render_text: the segments, and the fields as the call leaves
\* them
_render_text(f) ==
    LET text0 == _modify_text(f.value)
        left == _view_boundary(f.view_offset).left
        right0 == _view_boundary(f.view_offset).right
        right == IF f.has_focus THEN right0 - 1 ELSE right0
        text == PySlice(text0, left, right)
        cursor_relative_position == f.cursor_position - left
    IN  [segments |->
             IF f.has_focus
             THEN <<PyTo(text, cursor_relative_position), <<cursor>>,
                    PyFrom(text, cursor_relative_position)>>
             ELSE <<text>>,
         fields |-> f]

\* the title and the box render() gives the Panel
PanelTitle(f, empty) ==
    IF title # <<>> /\ placeholder = <<>> /\ empty /\ ~f.has_focus
    THEN <<>> ELSE title

PanelBox(f) == IF f.has_focus THEN "DOUBLE" ELSE "SQUARE"

\* TextInput.render
TextRenderResult(f) ==
    LET r == _render_text(f)
    IN  [segments |-> r.segments,
         title |-> PanelTitle(r.fields, Len(r.fields.value) = 0),
         box |-> PanelBox(r.fields),
         fields |-> r.fields]

\* the fields a render call leaves behind become the widget's fields
RenderAction(r) ==
    /\ rendered' = [segments |-> r.segments, title |-> r.title, box |-> r.box]
    /\ value' = r.fields.value
    /\ int_value' = r.fields.int_value
    /\ bool_value' = r.fields.bool_value
    /\ _cursor_position' = r.fields.cursor_position
    /\ _view_offset' = r.fields.view_offset
    /\ _has_focus' = r.fields.has_focus
    /\ emitted' = <<>>
    /\ stopped' = FALSE
    /\ History("render")
    /\ UNCHANGED error
    /\ UNCHANGED config

TextRender ==
    /\ widget = "text"
    /\ error = "none"
    /\ RenderAction(TextRenderResult(Fields))

\* ---------------------------------------------------------- IntegerInput
\* IntegerInput._value_as_str
_value_as_str(v) == IF v = <<>> THEN <<>> ELSE IntToStr(v[1])

\* IntegerInput._increment_value
_increment_value(v, increment) ==
    IF v = <<>> THEN <<0 + increment>> ELSE <<v[1] + increment>>

\* self.value = int(text) followed by the cursor assignment, or the
\* ValueError int() raises, which leaves both as they were
IntAssign(v, cur, text, newcur) ==
    IF IsIntLiteral(text)
    THEN [value |-> <<StrToInt(text)>>, cur |-> newcur, error |-> "none",
          emit |-> TRUE]
    ELSE [value |-> v, cur |-> cur, error |-> "ValueError", emit |-> FALSE]

IntUnchanged(v, cur) ==
    [value |-> v, cur |-> cur, error |-> "none", emit |-> FALSE]

\* IntegerInput.on_key, "ctrl+h" branch
IntBackspace(v, cur) ==
    LET val == _value_as_str(v)
    IN  IF cur = 0 THEN IntUnchanged(v, cur)
        ELSE IF Len(val) = 1
        THEN [value |-> <<>>, cur |-> 0, error |-> "none", emit |-> TRUE]
        ELSE IF Len(val) = 2
        THEN IF cur = 1
             THEN IntAssign(v, cur, <<val[2]>>, 0)
             ELSE IntAssign(v, cur, <<val[1]>>, 1)
        ELSE IF cur = 1
             THEN IntAssign(v, cur, PyFrom(val, 1), 0)
             ELSE IF cur = Len(val)
             THEN IntAssign(v, cur, PyTo(val, -1), cur - 1)
             ELSE IntAssign(v, cur, PyTo(val, cur - 1) \o PyFrom(val, cur),
                            cur - 1)

\* IntegerInput.on_key, "delete" branch
IntDelete(v, cur) ==
    LET val == _value_as_str(v)
    IN  IF cur = Len(val) THEN IntUnchanged(v, cur)
        ELSE IF Len(val) = 1
        THEN [value |-> <<>>, cur |-> cur, error |-> "none", emit |-> TRUE]
        ELSE IF Len(val) = 2
        THEN IF cur = 1
             THEN IntAssign(v, cur, <<val[1]>>, cur)
             ELSE IntAssign(v, cur, <<val[2]>>, cur)
        ELSE IF cur = 0
             THEN IntAssign(v, cur, PyFrom(val, 1), cur)
             ELSE IntAssign(v, cur, PyTo(val, cur) \o PyFrom(val, cur + 1), cur)

\* IntegerInput.on_key, digit branch
IntDigit(v, cur, key) ==
    LET val == _value_as_str(v)
        text == IF cur = 0 THEN <<key>> \o val
                ELSE IF cur = Len(val) THEN val \o <<key>>
                ELSE PyTo(val, cur) \o <<key>> \o PyFrom(val, cur)
    IN  IF IsIntLiteral(text)
        THEN LET new == <<StrToInt(text)>>
             IN  [value |-> new,
                  cur |-> IF ~(cur > Len(OptToStr(new))) THEN cur + 1 ELSE cur,
                  error |-> "none", emit |-> TRUE]
        ELSE [value |-> v, cur |-> cur, error |-> "ValueError", emit |-> FALSE]

\* the "-" branch with its test of the leading character inverted
IntMinusInverted(v, cur) ==
    LET val == _value_as_str(v)
    IN  IF Len(val) = 0
        THEN [value |-> v, cur |-> cur, error |-> "IndexError", emit |-> FALSE]
        ELSE IF val[1] = "-" /\ val # <<"0">>
        THEN IntAssign(v, cur, <<"-">> \o val, cur)
        ELSE IntUnchanged(v, cur)

\* IntegerInput.on_key, "-" branch (the caller has found the cursor at 0)
IntMinus(v, cur) ==
    LET val == _value_as_str(v)
    IN  IF Len(val) = 0
        THEN [value |-> v, cur |-> cur, error |-> "IndexError", emit |-> FALSE]
        ELSE IF val[1] # "-" /\ val # <<"0">>
        THEN IntAssign(v, cur, <<"-">> \o val, cur)
        ELSE IntUnchanged(v, cur)

\* the "up" and "down" branches taking the cursor from the value before the
\* increment
IntStepStaleCursor(v, increment) ==
    [value |-> _increment_value(v, increment), cur |-> Len(_value_as_str(v)),
     error |-> "none", emit |-> FALSE]

\* IntegerInput.on_key, "up" and "down" branches
IntStep(v, increment) ==
    LET new == _increment_value(v, increment)
    IN  [value |-> new, cur |-> Len(_value_as_str(new)), error |-> "none",
         emit |-> FALSE]

IntKeys == {"left", "right", "up", "down", "home", "end", "ctrl+h", "delete",
            "-", "enter"} \cup DigitKeys

\* IntegerInput.on_key: the new value and cursor, the exception raised, and
\* whether the branch ends in _emit_on_change
IntOnKeyResult(v, cur, key, stp) ==
    LET val == _value_as_str(v)
    IN  CASE key = "left" ->
               [IntUnchanged(v, cur) EXCEPT !.cur = IF cur = 0 THEN 0 ELSE cur - 1]
          [] key = "right" ->
               [IntUnchanged(v, cur) EXCEPT
                   !.cur = IF cur # Len(val) THEN cur + 1 ELSE cur]
          [] key = "up" -> IntStep(v, stp)
          [] key = "down" -> IntStep(v, 0 - stp)
          [] key = "home" -> [IntUnchanged(v, cur) EXCEPT !.cur = 0]
          [] key = "end" -> [IntUnchanged(v, cur) EXCEPT !.cur = Len(val)]
          [] key = "ctrl+h" -> IntBackspace(v, cur)
          [] key = "delete" -> IntDelete(v, cur)
          [] key \in DigitSet -> IntDigit(v, cur, key)
          [] key = "-" /\ cur = 0 -> IntMinus(v, cur)
          [] OTHER -> IntUnchanged(v, cur)

\* IntegerInput._emit_on_change
IntOnChange(r) ==
    [handler |-> InputOnChange._handler,
     sender |-> [Fields EXCEPT !.int_value = r.value, !.cursor_position = r.cur]]

\* IntegerInput.on_key: the messages emitted, built when the branch is done
IntOnKeyEmitted(v, cur, key, stp) ==
    LET r == IntOnKeyResult(v, cur, key, stp)
    IN  IF r.emit THEN <<IntOnChange(r)>> ELSE <<>>

Abs(n) == IF n < 0 THEN 0 - n ELSE n

IntOnKey(key) ==
    /\ widget = "integer"
    /\ error = "none"
    /\ key \in DigitSet =>
          Len(SelectSeq(_value_as_str(int_value), LAMBDA c : c \in DigitSet))
              < MaxDigits
    /\ key = "right" => _cursor_position < MaxCursor
    /\ key \in {"up", "down"} =>
          Abs(IntStep(int_value, IF key = "up" THEN step ELSE 0 - step).value[1])
              <= MaxInt
    /\ LET r == IntOnKeyResult(int_value, _cursor_position, key, step)
       IN  /\ int_value' = r.value
           /\ _cursor_position' = r.cur
           /\ error' = r.error
           /\ stopped' = r.emit
    /\ emitted' = IntOnKeyEmitted(int_value, _cursor_position, key, step)
    /\ History(KeyName(key))
    /\ rendered' = <<>>
    /\ UNCHANGED <<value, bool_value, _view_offset, _has_focus>>
    /\ UNCHANGED config

\* IntegerInput._emit_on_focus
IntOnFocusMessage(f) == [handler |-> InputOnFocus._handler, sender |-> f]

\* IntegerInput.on_focus
IntOnFocus ==
    /\ widget = "integer"
    /\ error = "none"
    /\ _has_focus' = TRUE
    /\ emitted' = <<IntOnFocusMessage([Fields EXCEPT !.has_focus = TRUE])>>
    /\ stopped' = FALSE
    /\ History("focus")
    /\ rendered' = <<>>
    /\ UNCHANGED <<value, int_value, bool_value, _cursor_position,
                   _view_offset, error>>
    /\ UNCHANGED config

\* IntegerInput.on_blur
IntOnBlur ==
    /\ widget = "integer"
    /\ error = "none"
    /\ _has_focus' = FALSE
    /\ emitted' = <<>>
    /\ stopped' = FALSE
    /\ History("blur")
    /\ rendered' = <<>>
    /\ UNCHANGED <<value, int_value, bool_value, _cursor_position,
                   _view_offset, error>>
    /\ UNCHANGED config

\* IntegerInput._render_text_with_cursor
_render_text_with_cursor(f) ==
    LET val == _value_as_str(f.int_value)
    IN  IF Len(val) = 0 THEN <<<<cursor>>>>
        ELSE IF f.cursor_position = 0 THEN <<<<cursor>>, val>>
        ELSE IF f.cursor_position = Len(val) THEN <<val, <<cursor>>>>
        ELSE <<PyTo(val, f.cursor_position), <<cursor>>,
               PyFrom(val, f.cursor_position)>>

\* IntegerInput.render
IntRenderResult(f) ==
    LET val == IF f.int_value = <<>> THEN <<>> ELSE IntToStr(f.int_value[1])
    IN  [segments |->
             IF f.has_focus THEN _render_text_with_cursor(f)
             ELSE IF Len(val) = 0
                  THEN IF title # <<>> /\ placeholder = <<>>
                       THEN <<title>> ELSE <<placeholder>>
                  ELSE <<val>>,
         title |-> PanelTitle(f, f.int_value = <<>>),
         box |-> PanelBox(f),
         fields |-> f]

IntRender ==
    /\ widget = "integer"
    /\ error = "none"
    /\ RenderAction(IntRenderResult(Fields))

\* ---------------------------------------------------------- BooleanInput
\* BooleanInput._toggle_value
_toggle_value(b) == ~b

BoolKeys == {"enter", "left"}

\* BooleanInput._emit_on_change
BoolOnChange(b) ==
    [handler |-> _on_change_message_class._handler,
     sender |-> [Fields EXCEPT !.bool_value = b]]

\* BooleanInput.on_key: the new value
BoolOnKeyValue(b, key) == IF key = "enter" THEN _toggle_value(b) ELSE b

\* BooleanInput.on_key: the messages emitted, built after the toggle
BoolOnKeyEmitted(b, key) ==
    IF key = "enter" THEN <<BoolOnChange(BoolOnKeyValue(b, key))>> ELSE <<>>

BoolOnKey(key) ==
    /\ widget = "boolean"
    /\ error = "none"
    /\ bool_value' = BoolOnKeyValue(bool_value, key)
    /\ emitted' = BoolOnKeyEmitted(bool_value, key)
    /\ stopped' = (key = "enter")
    /\ History(KeyName(key))
    /\ rendered' = <<>>
    /\ UNCHANGED <<value, int_value, _cursor_position, _view_offset,
                   _has_focus, error>>
    /\ UNCHANGED config

\* BooleanInput.on_focus
BoolOnFocus ==
    /\ widget = "boolean"
    /\ error = "none"
    /\ _has_focus' = TRUE
    /\ emitted' = <<OnFocusMessage([Fields EXCEPT !.has_focus = TRUE])>>
    /\ stopped' = FALSE
    /\ History("focus")
    /\ rendered' = <<>>
    /\ UNCHANGED <<value, int_value, bool_value, _cursor_position,
                   _view_offset, error>>
    /\ UNCHANGED config

\* BooleanInput.on_blur
BoolOnBlur ==
    /\ widget = "boolean"
    /\ error = "none"
    /\ _has_focus' = FALSE
    /\ emitted' = <<>>
    /\ stopped' = FALSE
    /\ History("blur")
    /\ rendered' = <<>>
    /\ UNCHANGED <<value, int_value, bool_value, _cursor_position,
                   _view_offset, error>>
    /\ UNCHANGED config

\* BooleanInput.render
BoolRenderResult(f) ==
    [segments |-> <<BoolToStr(f.bool_value)>>, title |-> title,
     box |-> PanelBox(f), fields |-> f]

BoolRender ==
    /\ widget = "boolean"
    /\ error = "none"
    /\ RenderAction(BoolRenderResult(Fields))

\* ---------------------------------------------------------- handler names
\* "handle_age_on_change", the name the example form gives its IntegerInput
HANDLE_AGE_ON_CHANGE ==
    HandlePrefix \o <<"a", "g", "e", "_", "o", "n", "_",
                      "c", "h", "a", "n", "g", "e">>

\* the handler names assigned to an IntegerInput
AgeHandlerNames == {HANDLE_AGE_ON_CHANGE, HandlePrefix \o <<"a">>}

\* the handler names handed to the setters
HandlerNames == {h \o t : h \in NameHeads, t \in SeqsUpTo(NameChars, MaxSuffix)}

\* the on_change_handler_name and on_focus_handler_name getters
on_change_handler_name == _on_change_message_class._handler
on_focus_handler_name == _on_focus_message_class._handler

\* what an assignment to one of the two properties leaves alone, and what it
\* records
Bound(property, handler_name, raised) ==
    /\ error' = raised
    /\ lastBind' = [property |-> property, handler_name |-> handler_name,
                    on_change |-> on_change_handler_name,
                    on_focus |-> on_focus_handler_name]
    /\ Recorded("bind")
    /\ emitted' = <<>>
    /\ stopped' = FALSE
    /\ rendered' = <<>>
    /\ UNCHANGED <<value, int_value, bool_value, _cursor_position,
                   _view_offset, _has_focus>>
    /\ UNCHANGED <<layout, log, pos>>

\* self.age.on_change_handler_name = handler_name on an IntegerInput, which
\* has no such property: the assignment creates an instance attribute
IntSetOnChangeHandlerName(handler_name) ==
    /\ widget = "integer"
    /\ error = "none"
    /\ attr_on_change_handler_name' = handler_name
    /\ UNCHANGED <<_on_change_message_class, _on_focus_message_class>>
    /\ Bound("on_change", handler_name, "none")

\* the on_change_handler_name setter
SetOnChangeHandlerName(handler_name) ==
    LET made == make_message_class(handler_name)
    IN  /\ _on_change_message_class' =
               IF made.error = "none" THEN made.class
               ELSE _on_change_message_class
        /\ UNCHANGED <<_on_focus_message_class, attr_on_change_handler_name>>
        /\ Bound("on_change", handler_name, made.error)

\* the on_focus_handler_name setter
SetOnFocusHandlerName(handler_name) ==
    LET made == make_message_class(handler_name)
    IN  /\ _on_focus_message_class' =
               IF made.error = "none" THEN made.class
               ELSE _on_focus_message_class
        /\ UNCHANGED <<_on_change_message_class, attr_on_change_handler_name>>
        /\ Bound("on_focus", handler_name, made.error)

TextSetOnChangeHandlerName(handler_name) ==
    /\ widget = "text"
    /\ error = "none"
    /\ SetOnChangeHandlerName(handler_name)

TextSetOnFocusHandlerName(handler_name) ==
    /\ widget = "text"
    /\ error = "none"
    /\ SetOnFocusHandlerName(handler_name)

BoolSetOnChangeHandlerName(handler_name) ==
    /\ widget = "boolean"
    /\ error = "none"
    /\ SetOnChangeHandlerName(handler_name)

BoolSetOnFocusHandlerName(handler_name) ==
    /\ widget = "boolean"
    /\ error = "none"
    /\ SetOnFocusHandlerName(handler_name)

\* ------------------------------------------------------------------ Init
\* TextInput.__init__, and the size the host's layout gives the widget
InitText ==
    /\ widget = "text"
    /\ value \in SeqsUpTo(Chars, MaxInitLen)
    /\ _cursor_position = Len(value)
    /\ _view_offset = 0
    /\ int_value = <<>>
    /\ bool_value = FALSE
    /\ step = 1
    /\ \E a \in CtorArgs :
          /\ placeholder = a.placeholder
          /\ title = a.title
          /\ has_password = a.password
          /\ size_width = a.size_width
          /\ border = a.border

\* IntegerInput.__init__ (the class never reads its size)
InitInteger ==
    /\ widget = "integer"
    /\ int_value \in InitInts
    /\ _cursor_position = Len(OptToStr(int_value))
    /\ \E a \in IntCtorArgs :
          /\ placeholder = a.placeholder
          /\ title = a.title
          /\ step = a.step
    /\ has_password = FALSE
    /\ value = <<>>
    /\ bool_value = FALSE
    /\ _view_offset = 0
    /\ size_width = 8
    /\ border = FALSE

\* BooleanInput.__init__ (the class never reads its size)
InitBoolean ==
    /\ widget = "boolean"
    /\ bool_value \in BOOLEAN
    /\ _cursor_position = Len(BoolToStr(bool_value))
    /\ title \in {a.title : a \in CtorArgs}
    /\ placeholder = <<>>
    /\ has_password = FALSE
    /\ value = <<>>
    /\ int_value = <<>>
    /\ step = 1
    /\ _view_offset = 0
    /\ size_width = 8
    /\ border = FALSE

Init ==
    /\ InitText \/ InitInteger \/ InitBoolean
    /\ _has_focus = FALSE
    /\ lastKey = "none"
    /\ prevChar = FALSE
    /\ pre = Fields
    /\ emitted = <<>>
    /\ stopped = FALSE
    /\ error = "none"
    /\ rendered = <<>>
    /\ _on_change_message_class = InputOnChange
    /\ _on_focus_message_class = InputOnFocus
    /\ lastBind = NoBind
    /\ attr_on_change_handler_name = <<>>
    /\ log = <<>>
    /\ pos = 0

Next ==
    \/ \E key \in TextKeys : TextOnKey(key)
    \/ TextOnFocus
    \/ TextOnBlur
    \/ TextRender
    \/ \E key \in IntKeys : IntOnKey(key)
    \/ IntOnFocus
    \/ IntOnBlur
    \/ IntRender
    \/ \E key \in BoolKeys : BoolOnKey(key)
    \/ BoolOnFocus
    \/ BoolOnBlur
    \/ BoolRender

Spec == Init /\ [][Next]_vars

\* a TextInput or a BooleanInput whose handler names the application assigns
\* between focus changes and, for the BooleanInput, keys and renders: an
\* empty TextInput of view width 4, or either BooleanInput
InitBind ==
    /\ Init
    /\ widget \in {"text", "boolean"}
    /\ widget = "text" =>
          /\ value = <<>>
          /\ size_width = 8
          /\ ~has_password
    /\ widget = "boolean" => title = <<>>

NextBind ==
    \/ \E n \in HandlerNames : TextSetOnChangeHandlerName(n)
    \/ \E n \in HandlerNames : TextSetOnFocusHandlerName(n)
    \/ \E n \in HandlerNames : BoolSetOnChangeHandlerName(n)
    \/ \E n \in HandlerNames : BoolSetOnFocusHandlerName(n)
    \/ TextOnFocus
    \/ TextOnBlur
    \/ \E key \in BoolKeys : BoolOnKey(key)
    \/ BoolOnFocus
    \/ BoolOnBlur
    \/ BoolRender

SpecBind == InitBind /\ [][NextBind]_vars

\* the IntegerInput of the example form: no value, a placeholder and a title
InitAge ==
    /\ Init
    /\ widget = "integer"
    /\ int_value = <<>>
    /\ placeholder # <<>>
    /\ title # <<>>

NextAge ==
    \/ \E n \in AgeHandlerNames : IntSetOnChangeHandlerName(n)
    \/ \E key \in IntKeys : IntOnKey(key)
    \/ IntOnFocus
    \/ IntOnBlur
    \/ IntRender

SpecAge == InitAge /\ [][NextAge]_vars

\* ------------------------------------------- a plain and a masked TextInput
\* The same inputs are handed first to a TextInput constructed with
\* password=False, whose fields, messages and segment lengths are logged, and
\* then to a TextInput constructed the same way but with password=True.
MaskInputs == TextControlKeys \cup Chars \cup {"focus", "blur", "render"}

\* the lengths of the segments of a render
Shape(segments) == [i \in 1..Len(segments) |-> Len(segments[i])]

\* what the TextInput handler of an input leaves: on_key, on_focus, on_blur
\* and render
Handled(input) ==
    IF input = "focus"
    THEN [fields |-> [Fields EXCEPT !.has_focus = TRUE],
          emitted |-> <<OnFocusMessage([Fields EXCEPT !.has_focus = TRUE])>>,
          stopped |-> FALSE, rendered |-> <<>>]
    ELSE IF input = "blur"
    THEN [fields |-> [Fields EXCEPT !.has_focus = FALSE],
          emitted |-> <<>>, stopped |-> FALSE, rendered |-> <<>>]
    ELSE IF input = "render"
    THEN LET r == TextRenderResult(Fields)
         IN  [fields |-> r.fields, emitted |-> <<>>, stopped |-> FALSE,
              rendered |-> [segments |-> r.segments, title |-> r.title,
                            box |-> r.box]]
    ELSE LET t == TextOnKeyFields(TextFields, input)
         IN  [fields |-> [Fields EXCEPT !.value = t.value,
                                        !.cursor_position = t.cur,
                                        !.view_offset = t.off],
              emitted |-> TextOnKeyEmitted(TextFields, input),
              stopped |-> TextOnKeyStopped(input), rendered |-> <<>>]

\* the entry of the log for an input handled from the fields before
Logged(input, before, h) ==
    [input |-> input, before |-> before, fields |-> h.fields,
     emitted |-> h.emitted,
     shape |-> IF h.rendered = <<>> THEN <<>> ELSE Shape(h.rendered.segments)]

Handle(input) ==
    LET h == Handled(input)
    IN  /\ widget = "text"
        /\ error = "none"
        /\ input \in Chars => Len(value) < MaxLen
        /\ value' = h.fields.value
        /\ _cursor_position' = h.fields.cursor_position
        /\ _view_offset' = h.fields.view_offset
        /\ _has_focus' = h.fields.has_focus
        /\ emitted' = h.emitted
        /\ stopped' = h.stopped
        /\ rendered' = h.rendered
        /\ History(KeyName(input))
        /\ UNCHANGED <<int_value, bool_value, error,
                       _on_change_message_class, _on_focus_message_class,
                       attr_on_change_handler_name>>

\* an input is handed to the plain TextInput
PlainHandles(input) ==
    /\ pos = 0
    /\ Len(log) < MaxScript
    /\ Handle(input)
    /\ log' = Append(log, Logged(input, Fields, Handled(input)))
    /\ UNCHANGED <<pos, layout>>

\* TextInput.__init__ with the arguments of the plain one and password=True
MaskedConstructed ==
    /\ widget = "text"
    /\ pos = 0
    /\ Len(log) >= 1
    /\ ~has_password
    /\ error = "none"
    /\ has_password' = TRUE
    /\ value' = log[1].before.value
    /\ _cursor_position' = Len(log[1].before.value)
    /\ _view_offset' = 0
    /\ _has_focus' = FALSE
    /\ lastKey' = "none"
    /\ prevChar' = FALSE
    /\ pre' = log[1].before
    /\ emitted' = <<>>
    /\ stopped' = FALSE
    /\ rendered' = <<>>
    /\ pos' = 1
    /\ UNCHANGED <<widget, size_width, border, step, placeholder, title,
                   int_value, bool_value, error, log, lastBind,
                   _on_change_message_class, _on_focus_message_class,
                   attr_on_change_handler_name>>

\* the next input of the log is handed to the masked TextInput
MaskedHandles ==
    /\ pos >= 1
    /\ pos <= Len(log)
    /\ Handle(log[pos].input)
    /\ pos' = pos + 1
    /\ UNCHANGED <<log, layout>>

\* the plain TextInput: empty or holding "ab", in a bordered widget 8 columns
\* wide (view width 4)
InitMask ==
    /\ Init
    /\ widget = "text"
    /\ value \in {<<>>, <<"a", "b">>}
    /\ ~has_password
    /\ size_width = 8

NextMask ==
    \/ \E input \in MaskInputs : PlainHandles(input)
    \/ MaskedConstructed
    \/ MaskedHandles

SpecMask == InitMask /\ [][NextMask]_vars

\* TextInput.__init__ with a content of one repeated letter, long enough to
\* scroll, in a bordered widget without placeholder, title and masking
InitView ==
    /\ widget = "text"
    /\ value \in {[i \in 1..n |-> "a"] : n \in 0..MaxViewLen}
    /\ _cursor_position = Len(value)
    /\ _view_offset = 0
    /\ int_value = <<>>
    /\ bool_value = FALSE
    /\ step = 1
    /\ placeholder = <<>>
    /\ title = <<>>
    /\ has_password = FALSE
    /\ size_width \in ViewWidths
    /\ border = TRUE
    /\ _has_focus = FALSE
    /\ lastKey = "none"
    /\ prevChar = FALSE
    /\ pre = Fields
    /\ emitted = <<>>
    /\ stopped = FALSE
    /\ error = "none"
    /\ rendered = <<>>
    /\ _on_change_message_class = InputOnChange
    /\ _on_focus_message_class = InputOnFocus
    /\ lastBind = NoBind
    /\ attr_on_change_handler_name = <<>>
    /\ log = <<>>
    /\ pos = 0

NextView ==
    \/ \E key \in TextKeys : TextOnKey(key)
    \/ TextOnFocus
    \/ TextOnBlur
    \/ TextRender

SpecView == InitView /\ [][NextView]_vars

\* ---------------------------------------------------------------- claims
\* the last event was a key delivered to on_key
AfterKey == lastKey \notin {"none", "focus", "blur", "render", "bind"}

\* C1: in every reachable state of a TextInput the cursor index lies in
\* 0..length(content) and the scroll offset is not negative.
C1_CursorAndOffsetInRange ==
    widget = "text" =>
        /\ 0 <= _cursor_position
        /\ _cursor_position <= Len(value)
        /\ _view_offset >= 0

\* a delete of the last character has left the cursor at the new end of a
\* scrolled content
C1_Witness ==
    /\ widget = "text"
    /\ lastKey = "delete"
    /\ Len(value) + 1 = Len(pre.value)
    /\ _cursor_position = Len(value)
    /\ _view_offset > 0

\* C2: in every reachable state of a focused TextInput whose visible width
\* is positive (widths 1..3 included), scroll_offset <= cursor_index.
C2_OffsetAtMostCursor ==
    (widget = "text" /\ _has_focus /\ _view_width > 0) =>
        _view_offset <= _cursor_position

\* C3: after any sequence of cursor moves and edits on a TextInput of
\* visible width W > 0 (any initial content, keys that are no-ops included)
\* the visible slice is at most W long and
\* scroll_offset <= cursor_index <= scroll_offset + W.
C3_ViewportContainment ==
    (widget = "text" /\ AfterKey /\ _view_width > 0) =>
        /\ Len(PySlice(value, _view_offset, _view_offset + _view_width))
               <= _view_width
        /\ _view_offset <= _cursor_position
        /\ _cursor_position <= _view_offset + _view_width

\* C4: on a TextInput, a printable key immediately followed by backspace
\* restores the content and the cursor index that preceded the insert.
C4_InsertBackspaceInverse ==
    [][(widget = "text" /\ lastKey = "char" /\ lastKey' = "ctrl+h") =>
          /\ value' = pre.value
          /\ _cursor_position' = pre.cursor_position]_vars

\* a backspace has been handled right after a printable key, in a content
\* that had characters on both sides of the cursor
C4_Witness ==
    /\ widget = "text"
    /\ lastKey = "ctrl+h"
    /\ prevChar
    /\ 0 < _cursor_position
    /\ _cursor_position < Len(value)

\* C5: a render call changes none of content, cursor index, scroll offset
\* and focus state, and a render call that follows a render call with no
\* event in between returns the same segments.
C5_RenderReadOnlyIdempotent ==
    [][lastKey' = "render" =>
          /\ Fields' = Fields
          /\ lastKey = "render" => rendered'.segments = rendered.segments]_vars

\* a focused TextInput whose viewport a forward delete left unsynchronized
\* has been rendered
C5_Witness ==
    /\ widget = "text"
    /\ lastKey = "render"
    /\ _has_focus
    /\ Len(rendered.segments) = 3
    /\ _view_offset > 0
    /\ _ensure_cursor_visible(value, _cursor_position, _view_offset)
           # _view_offset

\* the scroll offset _ensure_cursor_visible leaves for content val, cursor
\* cur and previous offset off, stated from the two adjustment rules
Resynchronized(val, cur, off) ==
    IF cur < off + edge_visibility
    THEN Max(0, cur - edge_visibility)
    ELSE IF cur > off + _view_width - 1 - edge_visibility
         THEN Max(0, Min(Len(val), cur + edge_visibility) - _view_width + 1)
         ELSE off

C7_Backspace ==
    (widget = "text" /\ lastKey = "ctrl+h") =>
        LET c == pre.cursor_position
            old == pre.value
        IN  IF c = 0
            THEN /\ value = old
                 /\ _cursor_position = 0
                 /\ _view_offset = pre.view_offset
            ELSE /\ Len(value) = Len(old) - 1
                 /\ \A i \in 1..(c - 1) : value[i] = old[i]
                 /\ \A i \in c..Len(value) : value[i] = old[i + 1]
                 /\ _cursor_position = c - 1
                 /\ _view_offset = Resynchronized(value, c - 1, pre.view_offset)

\* a backspace has removed a character and the viewport moved
C7_Witness ==
    /\ widget = "text"
    /\ lastKey = "ctrl+h"
    /\ pre.cursor_position > 0
    /\ Len(value) + 1 = Len(pre.value)
    /\ _view_offset # pre.view_offset

\* C8: delete on a TextInput with the cursor at the end changes nothing;
\* otherwise it removes exactly the character at the cursor index; in both
\* cases cursor index and scroll offset stay as they were.
C8_DeleteForward ==
    (widget = "text" /\ lastKey = "delete") =>
        LET c == pre.cursor_position
            old == pre.value
        IN  /\ _cursor_position = c
            /\ _view_offset = pre.view_offset
            /\ IF c = Len(old)
               THEN value = old
               ELSE /\ Len(value) = Len(old) - 1
                    /\ \A i \in 1..c : value[i] = old[i]
                    /\ \A i \in (c + 1)..Len(value) : value[i] = old[i + 1]

\* a delete has removed a character where a resynchronization would have
\* moved the viewport
C8_Witness ==
    /\ widget = "text"
    /\ lastKey = "delete"
    /\ Len(value) + 1 = Len(pre.value)
    /\ _ensure_cursor_visible(value, _cursor_position, _view_offset)
           # _view_offset

\* C9: every content-changing key (insert, backspace, delete on the text
\* and integer widgets, up and down on the integer widget) emits one
\* on-change notification whose handler observes the new fields, and the
\* cursor keys left, right, home and end emit none.
C9_ChangeEmitsOnChange ==
    (widget \in {"text", "integer"} /\ AfterKey) =>
        /\ (/\ lastKey \in {"char", "ctrl+h", "delete", "up", "down"}
            /\ <<value, int_value>> # <<pre.value, pre.int_value>>) =>
               /\ Len(emitted) = 1
               /\ emitted[1].handler = HANDLER_ON_CHANGE
               /\ emitted[1].sender = Fields
        /\ lastKey \in {"left", "right", "home", "end"} => emitted = <<>>

\* C10: a focus event on any of the three widgets sets is_focused and emits
\* exactly one on-focus notification; a blur event clears is_focused and
\* emits nothing.
C10_FocusEmitsOnFocus ==
    /\ lastKey = "focus" =>
          /\ _has_focus
          /\ Len(emitted) = 1
          /\ emitted[1].handler = HANDLER_ON_FOCUS
    /\ lastKey = "blur" =>
          /\ ~_has_focus
          /\ emitted = <<>>

\* a widget that was not focused has handled a focus event
C10_Witness ==
    /\ lastKey = "focus"
    /\ ~pre.has_focus
    /\ _has_focus
    /\ emitted # <<>>

\* C11 as stated: whenever a widget emits an on-change or an on-focus
\* notification, the event that triggered it is marked stopped.
C11_EveryNotificationStops ==
    emitted # <<>> => stopped

\* C11 as amended: whenever a widget emits an on-change notification the
\* key event that triggered it is marked stopped; the focus event that
\* triggers an on-focus notification is not stopped.
C11_OnChangeStopsKey ==
    /\ (AfterKey /\ emitted # <<>>) =>
          /\ emitted[1].handler = HANDLER_ON_CHANGE
          /\ stopped
    /\ lastKey = "focus" => (emitted # <<>> /\ ~stopped)

\* a TextInput has emitted an on-change notification for a key that
\* changed its content
C11_Witness ==
    /\ widget = "text"
    /\ AfterKey
    /\ emitted # <<>>
    /\ value # pre.value
    /\ stopped

\* C12: no key event delivered to an IntegerInput raises an exception.
C12_IntKeysNeverRaise ==
    widget = "integer" => error = "none"

\* a decimal string has a digit
HasDigit(s) == \E i \in 1..Len(s) : s[i] \in DigitSet

\* C13: backspace and delete on an IntegerInput leave the value the integer
\* parsed from the remaining characters, or null when no digit remains, and
\* raise nothing.
C13_IntRemoveReparses ==
    (widget = "integer" /\ lastKey \in {"ctrl+h", "delete"}) =>
        LET old == _value_as_str(pre.int_value)
            c == pre.cursor_position
            remaining ==
                IF lastKey = "ctrl+h"
                THEN IF c = 0 THEN old
                     ELSE SubSeq(old, 1, Min(c - 1, Len(old)))
                              \o SubSeq(old, c + 1, Len(old))
                ELSE SubSeq(old, 1, Min(c, Len(old)))
                         \o SubSeq(old, c + 2, Len(old))
        IN  /\ error = "none"
            /\ int_value = IF HasDigit(remaining)
                           THEN <<StrToInt(remaining)>> ELSE <<>>

\* C14: the "-" key on an IntegerInput is accepted only with the cursor at 0
\* on a content that neither starts with "-" nor is "0"; when accepted the
\* value becomes its negation and the cursor advances by 1; otherwise value
\* and cursor stay and nothing is emitted.
C14_MinusKey ==
    (widget = "integer" /\ lastKey = "-") =>
        LET old == _value_as_str(pre.int_value)
            c == pre.cursor_position
        IN  IF c = 0 /\ old # <<>> /\ old[1] # "-" /\ old # <<"0">>
            THEN /\ int_value = <<0 - pre.int_value[1]>>
                 /\ _cursor_position = c + 1
            ELSE /\ int_value = pre.int_value
                 /\ _cursor_position = c
                 /\ emitted = <<>>

\* C15 as stated: on an IntegerInput whose value is a positive integer, "-"
\* with the cursor at 0 is rejected and the value stays.
C15_MinusOnPositiveRejected ==
    (/\ widget = "integer"
     /\ lastKey = "-"
     /\ pre.cursor_position = 0
     /\ pre.int_value # <<>>
     /\ pre.int_value[1] > 0) => int_value = pre.int_value

\* C15 as amended: on an IntegerInput whose value is a positive integer, "-"
\* with the cursor at 0 is accepted and the value becomes its negation.
C15_MinusOnPositiveNegates ==
    (/\ widget = "integer"
     /\ lastKey = "-"
     /\ pre.cursor_position = 0
     /\ pre.int_value # <<>>
     /\ pre.int_value[1] > 0) =>
        /\ int_value = <<0 - pre.int_value[1]>>
        /\ error = "none"

\* "-" has been pressed with the cursor at 0 of a positive value
C15_Witness ==
    /\ widget = "integer"
    /\ lastKey = "-"
    /\ pre.cursor_position = 0
    /\ pre.int_value # <<>>
    /\ pre.int_value[1] > 0
    /\ int_value # <<>>
    /\ int_value[1] < 0

\* C16: in every reachable state of an IntegerInput the cursor index lies in
\* 0..length of the decimal string of the value (the empty string for null).
C16_IntCursorInRange ==
    widget = "integer" =>
        /\ 0 <= _cursor_position
        /\ _cursor_position <= Len(_value_as_str(int_value))

\* C17: on an IntegerInput the up key adds step to the value and the down
\* key subtracts it, a null value counting as 0, and the cursor becomes the
\* length of the decimal string of the new value.
C17_Step ==
    (widget = "integer" /\ lastKey \in {"up", "down"}) =>
        LET base == IF pre.int_value = <<>> THEN 0 ELSE pre.int_value[1]
            new == IF lastKey = "up" THEN base + step ELSE base - step
        IN  /\ int_value = <<new>>
            /\ _cursor_position = Len(IntToStr(new))

\* the down key has stepped a null value below zero
C17_Witness ==
    /\ widget = "integer"
    /\ lastKey = "down"
    /\ pre.int_value = <<>>
    /\ int_value # <<>>
    /\ int_value[1] < 0
    /\ _cursor_position = 2

\* C19: an unfocused TextInput or IntegerInput whose content is empty renders
\* the single segment [title] when a title is set and no placeholder is set,
\* and the single segment [placeholder] otherwise.
C19_EmptyUnfocusedShowsPlaceholder ==
    (/\ widget \in {"text", "integer"}
     /\ lastKey = "render"
     /\ ~_has_focus
     /\ IF widget = "text" THEN value = <<>> ELSE int_value = <<>>) =>
        rendered.segments =
            IF title # <<>> /\ placeholder = <<>>
            THEN <<title>> ELSE <<placeholder>>

\* C20: a focused TextInput renders the three segments [pre, cursor, post];
\* pre followed by post is the content from the scroll offset up to, not
\* including, scroll offset + view width - 1, and pre has cursor index -
\* scroll offset characters.
C20_FocusedSegments ==
    (widget = "text" /\ lastKey = "render" /\ _has_focus) =>
        /\ Len(rendered.segments) = 3
        /\ rendered.segments[2] = <<cursor>>
        /\ rendered.segments[1] \o rendered.segments[3] =
               SubSeq(_modify_text(value), _view_offset + 1,
                      Min(_view_offset + _view_width - 1, Len(value)))
        /\ Len(rendered.segments[1]) = _cursor_position - _view_offset

C21_TooSmallShowsNothing ==
    (widget = "text" /\ _view_width <= 0) =>
        /\ error = "none"
        /\ lastKey = "render" =>
              rendered.segments =
                  IF _has_focus THEN <<<<>>, <<cursor>>, <<>>>> ELSE <<<<>>>>

\* the key handled last by a TextInput called _ensure_cursor_visible
Resynced ==
    /\ widget = "text"
    /\ \/ lastKey \in {"home", "end", "char"}
       \/ lastKey \in {"left", "ctrl+h"} /\ pre.cursor_position > 0
       \/ lastKey = "right" /\ pre.cursor_position < Len(pre.value)

\* the characters a focused render of the TextInput shows left and right of
\* the cursor
ShownLeft == Len(_render_text([Fields EXCEPT !.has_focus = TRUE]).segments[1])
ShownRight == Len(_render_text([Fields EXCEPT !.has_focus = TRUE]).segments[3])

\* the resynchronization found the cursor inside the left margin
LeftCase == Resynced /\ _cursor_position < pre.view_offset + edge_visibility

\* C24 as stated: when a resynchronization finds cursor_index < scroll_offset
\* + edge_margin, the new scroll_offset is max(0, cursor_index - edge_margin)
\* and min(edge_margin, cursor_index) characters are visible left of the
\* cursor; the right adjustment does not apply then.
C24_LeftAdjustmentShows ==
    LeftCase =>
        /\ _view_offset = Max(0, _cursor_position - edge_visibility)
        /\ ShownLeft = Min(edge_visibility, _cursor_position)

\* C24 as amended: when a resynchronization finds cursor_index < scroll_offset
\* + edge_margin, the new scroll_offset is max(0, cursor_index - edge_margin),
\* so the window starts min(edge_margin, cursor_index) characters before the
\* cursor, and these are all visible when the view width exceeds the margin;
\* the right adjustment does not apply then.
C24_LeftAdjustment ==
    LeftCase =>
        /\ _view_offset = Max(0, _cursor_position - edge_visibility)
        /\ _cursor_position - _view_offset
               = Min(edge_visibility, _cursor_position)
        /\ _view_width > edge_visibility =>
               ShownLeft = Min(edge_visibility, _cursor_position)

\* a resynchronization has found the cursor inside both margins of a window
\* wider than the margin and has scrolled by the left rule
C24_Witness ==
    /\ LeftCase
    /\ _view_width > edge_visibility
    /\ _cursor_position > pre.view_offset + _view_width - 1 - edge_visibility
    /\ _view_offset > 0
    /\ _view_offset # pre.view_offset

\* the resynchronization found the cursor outside the left margin and inside
\* the right margin
RightCase ==
    /\ Resynced
    /\ ~(_cursor_position < pre.view_offset + edge_visibility)
    /\ _cursor_position > pre.view_offset + _view_width - 1 - edge_visibility

C26_NoScrollPastEnd ==
    widget = "text" => _view_offset <= Max(0, Len(value) - _view_width + 1)

\* C27: the end key sets cursor_index to length(content) and scroll_offset
\* to max(0, length(content) - visible_width + 1).
C27_EndFullyRight ==
    (widget = "text" /\ lastKey = "end") =>
        /\ _cursor_position = Len(value)
        /\ _view_offset = Max(0, Len(value) - _view_width + 1)

\* C28: the home key sets cursor_index to 0 and scroll_offset to 0 and
\* leaves the content as it was.
C28_HomeFullyLeft ==
    (widget = "text" /\ lastKey = "home") =>
        /\ _cursor_position = 0
        /\ _view_offset = 0
        /\ value = pre.value

\* the home key has been handled in a scrolled window
C28_Witness ==
    /\ widget = "text"
    /\ lastKey = "home"
    /\ pre.view_offset > 0
    /\ pre.cursor_position > 0
    /\ _view_width > edge_visibility

\* C29: on a TextInput the left and right keys move the cursor by one inside
\* [0, length(content)], change neither cursor nor scroll offset at the
\* boundary they move toward, never change the content and emit nothing.
C29_LeftRight ==
    (widget = "text" /\ lastKey \in {"left", "right"}) =>
        LET c == pre.cursor_position
            atBoundary == IF lastKey = "left" THEN c = 0 ELSE c = Len(pre.value)
        IN  /\ value = pre.value
            /\ emitted = <<>>
            /\ 0 <= _cursor_position
            /\ _cursor_position <= Len(value)
            /\ atBoundary =>
                  /\ _cursor_position = c
                  /\ _view_offset = pre.view_offset
            /\ ~atBoundary =>
                  _cursor_position = IF lastKey = "left" THEN c - 1 ELSE c + 1

\* the left key has been handled with the cursor at 0 of a content
C29_Witness ==
    /\ widget = "text"
    /\ lastKey = "left"
    /\ pre.cursor_position = 0
    /\ Len(value) > 0

\* C30: when visible_width >= edge_margin + 1, every key that changes the
\* cursor position of a TextInput, and every home, end and printable key,
\* leaves scroll_offset <= cursor_index <= scroll_offset + visible_width - 1.
C30_CursorInsideWindow ==
    (/\ widget = "text"
     /\ AfterKey
     /\ _view_width >= edge_visibility + 1
     /\ _cursor_position # pre.cursor_position \/ Resynced) =>
        /\ _view_offset <= _cursor_position
        /\ _cursor_position <= _view_offset + _view_width - 1

\* a key has moved the cursor into the last column of a scrolled window
C30_Witness ==
    /\ widget = "text"
    /\ AfterKey
    /\ _view_width >= edge_visibility + 1
    /\ _cursor_position # pre.cursor_position
    /\ _view_offset > 0
    /\ _cursor_position = _view_offset + _view_width - 1

\* C23: once on_change_handler_name of an IntegerInput has been set to a
\* handler name, every on-change notification the widget emits is addressed
\* to that handler.
C23_IntegerUsesBoundHandler ==
    (/\ widget = "integer"
     /\ attr_on_change_handler_name # <<>>
     /\ AfterKey
     /\ emitted # <<>>) =>
        emitted[1].handler = attr_on_change_handler_name

\* C22: a masked TextInput handed the inputs a plain one was handed holds,
\* after each input, the content, cursor index, scroll offset and focus the
\* plain one held, has emitted the messages the plain one emitted, and has
\* rendered segments as long as those of the plain one.
C22_MaskingOnlyRenders ==
    (widget = "text" /\ pos >= 2) =>
        /\ Fields = log[pos - 1].fields
        /\ emitted = log[pos - 1].emitted
        /\ rendered # <<>> => Shape(rendered.segments) = log[pos - 1].shape

\* a masked TextInput has been given every input of a log in which the plain
\* one was typed into, and has rendered concealed content while focused
C22_Witness ==
    /\ widget = "text"
    /\ pos = Len(log) + 1
    /\ pos >= 2
    /\ has_password
    /\ lastKey = "render"
    /\ _has_focus
    /\ value # log[1].before.value
    /\ Len(rendered.segments[1]) > 0
    /\ rendered.segments[1][1] = "*"

C31_TextWitness ==
    /\ widget = "text"
    /\ lastKey = "ctrl+h"
    /\ pre.cursor_position = 0
    /\ pre.value # <<>>
    /\ value = pre.value
    /\ Len(emitted) = 1
    /\ stopped

====
